---- MODULE Spec2Model ----
(***************************************************************************)
(* Model of src/routes/insight.ts: the List (GET /aluno/:alunoId) and      *)
(* Generate (POST /aluno/:alunoId) request pipelines of the insight router.*)
(*                                                                         *)
(* Node runs every handler to completion between two awaits, so an action  *)
(* of the model is one such run: the completion of the awaited operation   *)
(* (storage query, generation call, timer, disconnect) followed by all the *)
(* synchronous code up to the next await or to the end of the handler.     *)
(***************************************************************************)
EXTENDS Integers, Sequences, FiniteSets, TLC

VARIABLES
    reqs,             \* per request: the handler's locals and position, and the
                      \* history of its calls (sent, outcomes, delays, reads,
                      \* writes, thrown)
    alunos,           \* storage: the aluno table (owned by the storage collaborator)
    insights,         \* storage: the insight table, in creation order
    GEMINI_API_KEY,   \* process.env.GEMINI_API_KEY is set (line 10)
    prismaConnected   \* the module-level PrismaClient holds a connection (line 8)

vars == <<reqs, alunos, insights, GEMINI_API_KEY, prismaConnected>>

----------------------------------------------------------------------------
(* Bounds of the model *)

NumReqs == 2

Reqs == 1..NumReqs

----------------------------------------------------------------------------
(* Program constants *)

maxRetries == 3

\* the text the catch of the POST handler searches for (line 212)
Marker == "Sobrecarga persistente"

\* messages of the errors the module itself throws (lines 58 and 84),
\* as sequences of text fragments
MsgNoApiKey == <<"GEMINI_API_KEY nao esta definida.">>
MsgRetryFailure == <<"Gemini API falhou apos multiplas tentativas (503 ", Marker, ").">>

promptBase == "promptBase"

----------------------------------------------------------------------------
(* Values of the environment: headers, tokens, rows, errors, texts *)

\* req.headers.authorization: absent, or a text (a sequence of fragments,
\* " " being the space character)
NoHeader == [set |-> FALSE, text |-> <<>>]
Hdr(t) == [set |-> TRUE, text |-> t]

ValidTokens == {"tkProfE1", "tkAdminE2"}
InvalidTokens == {"tkMalformed", "tkExpired", "tkBadSignature"}
Tokens == ValidTokens \cup InvalidTokens

Headers ==
    {NoHeader, Hdr(<<"Bearer">>), Hdr(<<"Bearer", " ">>),
     Hdr(<<"Bearer", " ", " ", "tkProfE1">>), Hdr(<<"tkAdminE2">>)}
    \cup {Hdr(<<"Bearer", " ", t>>) : t \in Tokens}

NoUser == [id |-> "", acesso |-> "", escolaId |-> ""]
NoAluno == [id |-> "", escolaId |-> "", Nome |-> "", observacoes |-> <<>>]
NoJson == [aluno |-> [Nome |-> ""], observacoes |-> <<>>]

AlunoIds == {"a1", "a2"}

\* the rows the aluno table can hold for an id: a1 exists, and other writers
\* of the storage move it between two schools and edit its data; a2 does
\* not exist
AlunoRows(a) ==
    IF a = "a1"
    THEN {[id |-> "a1", escolaId |-> "e1", Nome |-> "n1",
           observacoes |-> <<[texto |-> "o1"], [texto |-> "o2"]>>],
          [id |-> "a1", escolaId |-> "e2", Nome |-> "n2",
           observacoes |-> <<[texto |-> "o1"]>>]}
    ELSE {NoAluno}

\* req.params.alunoId
ParamIds == {"", "a1", "a2"}

Texts == {"t1", "t2"}

\* err.message of a thrown value that is not an Error: undefined
NoMessage == <<"<undefined>">>

\* messages of the values thrown by the collaborators (SDK, Prisma)
ExtMessages == {<<"falha externa">>, <<"detalhe: ", Marker>>, NoMessage}

\* an error of model.generateContent: status 0 stands for an absent status
GenErrors == [status : {0, 400, 503}, causeStatus : {0, 503}, message : ExtMessages]
StorageErrors == [message : ExtMessages]

----------------------------------------------------------------------------
(* authenticateToken (lines 13-29) *)

\* String.prototype.split(' '): the parts between the spaces
RECURSIVE SplitFrom(_, _, _)
SplitFrom(s, parts, cur) ==
    IF s = <<>> THEN Append(parts, cur)
    ELSE IF Head(s) = " " THEN SplitFrom(Tail(s), Append(parts, cur), <<>>)
    ELSE SplitFrom(Tail(s), parts, Append(cur, Head(s)))

Split(s) == SplitFrom(s, <<>>, <<>>)

\* Token with the first part of the header taken for the token (index 0)
TokenFirstPart(h) ==
    IF ~h.set \/ h.text = <<>> THEN <<>> ELSE Split(h.text)[1]

\* authHeader && authHeader.split(' ')[1]; <<>> stands for every falsy
\* value (undefined and the empty string), which !token does not tell apart
Token(h) ==
    IF ~h.set \/ h.text = <<>> THEN <<>>
    ELSE IF Len(Split(h.text)) < 2 THEN <<>>
    ELSE Split(h.text)[2]

\* jwt.verify(token, JWT_SECRET): the claims of the token, or the reason
\* of the verification error
JwtVerify(token) ==
    CASE token = <<"tkProfE1">> ->
            [ok |-> TRUE, reason |-> "",
             user |-> [id |-> "u1", acesso |-> "Professor", escolaId |-> "e1"]]
      [] token = <<"tkAdminE2">> ->
            [ok |-> TRUE, reason |-> "",
             user |-> [id |-> "u3", acesso |-> "Administrador", escolaId |-> "e2"]]
      [] token = <<"tkExpired">> ->
            [ok |-> FALSE, reason |-> "TokenExpiredError", user |-> NoUser]
      [] token = <<"tkBadSignature">> ->
            [ok |-> FALSE, reason |-> "invalid signature", user |-> NoUser]
      [] OTHER ->
            [ok |-> FALSE, reason |-> "jwt malformed", user |-> NoUser]

NoRes == [status |-> 0, body |-> [kind |-> "", text |-> "", data |-> <<>>]]
ErrorRes(st, msg) == [status |-> st, body |-> [kind |-> "error", text |-> msg, data |-> <<>>]]

\* authenticateToken with the reason of the verification error sent to the caller
authenticateTokenLeaky(h) ==
    LET token == Token(h)
        v == JwtVerify(token)
    IN IF token = <<>>
       THEN [next |-> FALSE, user |-> NoUser, verifyError |-> "",
             res |-> ErrorRes(401, "Token de autenticacao nao fornecido.")]
       ELSE IF v.ok
       THEN [next |-> TRUE, user |-> v.user, verifyError |-> "", res |-> NoRes]
       ELSE [next |-> FALSE, user |-> NoUser, verifyError |-> v.reason,
             res |-> ErrorRes(403, v.reason)]

\* the middleware: the response it sends, or the user it attaches before next()
authenticateToken(h) ==
    LET token == Token(h)
        v == JwtVerify(token)
    IN IF token = <<>>
       THEN [next |-> FALSE, user |-> NoUser, verifyError |-> "",
             res |-> ErrorRes(401, "Token de autenticacao nao fornecido.")]
       ELSE IF v.ok
       THEN [next |-> TRUE, user |-> v.user, verifyError |-> "", res |-> NoRes]
       ELSE [next |-> FALSE, user |-> NoUser, verifyError |-> v.reason,
             res |-> ErrorRes(403, "Token invalido.")]

----------------------------------------------------------------------------
(* retryGenerateInsight (lines 54-85) *)

\* (error as any).status || (error as any).cause?.status
ErrStatus(error) == IF error.status # 0 THEN error.status ELSE error.causeStatus

\* the catch retries exactly when the status is 503 (line 72)
IsOverload(error) == ErrStatus(error) = 503

\* DelayTime without the exponential growth
DelayTimeFixed(attempt) == 1000 + 0 * attempt

\* Math.pow(2, attempt) * 1000
DelayTime(attempt) == (2 ^ attempt) * 1000

\* the loop condition of line 63, evaluated after attempt++
AttemptsRemain(attempt) == attempt < maxRetries

----------------------------------------------------------------------------
(* POST handler: authorization, payload, prompt, catch (lines 177-215) *)

\* Authorized with the access test inverted (=== for !==)
AuthorizedInverted(user, aluno) ==
    ~(user.escolaId # aluno.escolaId /\ user.acesso = "Administrador")

\* Authorized without the Administrador exemption
AuthorizedOrgOnly(user, aluno) == user.escolaId = aluno.escolaId

\* the handler answers 403 when this is false (line 177)
Authorized(user, aluno) ==
    ~(user.escolaId # aluno.escolaId /\ user.acesso # "Administrador")

RECURSIVE MapTexto(_)
MapTexto(obs) ==
    IF obs = <<>> THEN <<>> ELSE <<Head(obs).texto>> \o MapTexto(Tail(obs))

\* jsonInput (lines 181-192); the other copied fields (Matricula, Idade,
\* turma, condicao, notas, avaliacoes) travel like Nome
JsonInput(aluno) ==
    [aluno |-> [Nome |-> aluno.Nome], observacoes |-> MapTexto(aluno.observacoes)]

\* JSON.stringify(jsonInput, null, 2), as a sequence of fragments
Stringify(json) ==
    <<"{aluno:{Nome:", json.aluno.Nome, "},observacoes:[">> \o json.observacoes \o <<"]}">>

\* fullPrompt (line 194)
FullPrompt(json) == <<promptBase, "JSON do Aluno:">> \o Stringify(json)

\* String.prototype.includes on a message
Includes(message, text) == \E k \in 1..Len(message) : message[k] = text

\* the response of the catch of the POST handler (lines 212-215)
CatchResponse(message) ==
    IF Includes(message, Marker)
    THEN ErrorRes(503, "Servico de IA Indisponivel (Sobrecarga). Tente novamente.")
    ELSE ErrorRes(500, "Erro interno ao gerar insight.")

\* NewInsight with the payload and the school read again from the table
NewInsightFresh(r, id, t) ==
    [id |-> id, alunoId |-> r.aluno.id, jsonInput |-> JsonInput(alunos[r.alunoId]),
     textoInsight |-> r.responseText, escolaId |-> r.aluno.escolaId,
     dataGeracao |-> t]

\* the data of prisma.insight.create (lines 198-205); id and dataGeracao
\* are the defaults of the storage
NewInsight(r, id, t) ==
    [id |-> id, alunoId |-> r.aluno.id, jsonInput |-> r.jsonInput,
     textoInsight |-> r.responseText, escolaId |-> r.aluno.escolaId,
     dataGeracao |-> t]

----------------------------------------------------------------------------
(* State *)

IdleReq ==
    [pc |-> "idle", method |-> "", authorization |-> NoHeader, param |-> "",
     alunoId |-> "", nextCalled |-> FALSE, unhandled |-> FALSE,
     disconnected |-> FALSE, aborted |-> FALSE, user |-> NoUser, aluno |-> NoAluno,
     jsonInput |-> NoJson, sent |-> <<>>, outcomes |-> <<>>, attempt |-> 0,
     delays |-> <<>>, responseText |-> "", thrown |-> "", err |-> <<>>,
     res |-> NoRes, insightId |-> 0, reads |-> 0, writes |-> 0]

Init ==
    /\ reqs = [i \in Reqs |-> IdleReq]
    /\ alunos \in [AlunoIds -> UNION {AlunoRows(a) : a \in AlunoIds}]
    /\ \A a \in AlunoIds : alunos[a] \in AlunoRows(a)
    /\ insights = <<>>
    /\ GEMINI_API_KEY \in BOOLEAN
    /\ prismaConnected = FALSE

\* Fail where the handler returns from the catch without the finally
FailNoFinally(r, site, message) ==
    IF message = NoMessage
    THEN [r EXCEPT !.thrown = site, !.err = message, !.unhandled = TRUE,
                   !.pc = "done"]
    ELSE [r EXCEPT !.thrown = site, !.err = message,
                   !.res = CatchResponse(message), !.pc = "done"]

\* a throw that reaches the catch of the POST handler: the response is sent
\* and the finally starts prisma.$disconnect(); when err.message is
\* undefined, message.includes throws inside the catch (line 212), nothing
\* is sent, the finally still runs and the handler's promise rejects
Fail(r, site, message) ==
    IF message = NoMessage
    THEN [r EXCEPT !.thrown = site, !.err = message, !.unhandled = TRUE,
                   !.pc = "disconnect"]
    ELSE [r EXCEPT !.thrown = site, !.err = message,
                   !.res = CatchResponse(message), !.pc = "disconnect"]

\* retryGenerateInsight calls model.generateContent(fullPrompt)
IssueCall(r) ==
    [r EXCEPT !.sent = Append(@, FullPrompt(r.jsonInput)), !.pc = "generate"]

\* Start with the test of the target id ahead of authenticateToken
StartIdFirst(method, h, id) ==
    LET a == authenticateToken(h)
        r == [IdleReq EXCEPT !.method = method, !.authorization = h, !.param = id]
    IN IF id = ""
       THEN [r EXCEPT !.pc = "done", !.res = ErrorRes(400, "ID do aluno e obrigatorio.")]
       ELSE IF ~a.next THEN [r EXCEPT !.res = a.res, !.pc = "done"]
       ELSE [r EXCEPT !.nextCalled = TRUE, !.user = a.user, !.alunoId = id,
                      !.reads = 1,
                      !.pc = IF method = "GET" THEN "findMany" ELSE "findUnique"]

\* the synchronous start of a request: authenticateToken, then the handler
\* up to its first await
Start(method, h, id) ==
    LET a == authenticateToken(h)
        r == [IdleReq EXCEPT !.method = method, !.authorization = h, !.param = id]
    IN IF ~a.next THEN [r EXCEPT !.res = a.res, !.pc = "done"]
       ELSE IF id = ""
       THEN [r EXCEPT !.nextCalled = TRUE, !.user = a.user, !.pc = "done",
                      !.res = ErrorRes(400, "ID do aluno e obrigatorio.")]
       ELSE [r EXCEPT !.nextCalled = TRUE, !.user = a.user, !.alunoId = id,
                      !.reads = 1,
                      !.pc = IF method = "GET" THEN "findMany" ELSE "findUnique"]

\* Receive under a delay that occupies the thread until its time is over
ReceiveBlockedByDelay(i) ==
    /\ reqs[i].pc = "idle"
    /\ \A j \in Reqs : reqs[j].pc # "delay"
    /\ i > 1 => reqs[i - 1].pc # "idle"
    /\ \E method \in {"GET", "POST"}, h \in Headers, id \in ParamIds :
         /\ reqs' = [reqs EXCEPT ![i] = Start(method, h, id)]
         /\ prismaConnected' = (prismaConnected \/ reqs'[i].reads > 0)
    /\ UNCHANGED <<alunos, insights, GEMINI_API_KEY>>

Receive(i) ==
    /\ reqs[i].pc = "idle"
    /\ i > 1 => reqs[i - 1].pc # "idle"
    /\ \E method \in {"GET", "POST"}, h \in Headers, id \in ParamIds :
         /\ reqs' = [reqs EXCEPT ![i] = Start(method, h, id)]
         /\ prismaConnected' = (prismaConnected \/ reqs'[i].reads > 0)
    /\ UNCHANGED <<alunos, insights, GEMINI_API_KEY>>

\* the continuation of the POST handler after prisma.aluno.findUnique
\* returned row (lines 173-196, and 57-65 of retryGenerateInsight)
AfterLoad(r, row, key) ==
    IF row = NoAluno
    THEN [r EXCEPT !.res = ErrorRes(404, "Aluno nao encontrado."), !.pc = "disconnect"]
    ELSE IF ~Authorized(r.user, row)
    THEN [r EXCEPT !.aluno = row, !.pc = "disconnect",
                   !.res = ErrorRes(403, "Acesso negado: Aluno nao pertence a sua escola.")]
    ELSE LET q == [r EXCEPT !.aluno = row, !.jsonInput = JsonInput(row)]
         IN IF ~key THEN Fail(q, "noApiKey", MsgNoApiKey) ELSE IssueCall(q)

FindUniqueDone(i) ==
    /\ reqs[i].pc = "findUnique"
    /\ \/ \E e \in StorageErrors :
            reqs' = [reqs EXCEPT ![i] = Fail(@, "storageRead", e.message)]
       \/ reqs' = [reqs EXCEPT ![i] = AfterLoad(@, alunos[reqs[i].alunoId], GEMINI_API_KEY)]
    /\ UNCHANGED <<alunos, insights, GEMINI_API_KEY, prismaConnected>>

\* the continuation of retryGenerateInsight after a rejected generateContent
\* (lines 67-80)
AfterGenError(r, error) ==
    IF ~IsOverload(error)
    THEN Fail([r EXCEPT !.outcomes = Append(@, [kind |-> "fatal", text |-> ""])],
              "genError", error.message)
    ELSE [r EXCEPT !.outcomes = Append(@, [kind |-> "overload", text |-> ""]),
                   !.delays = Append(@, DelayTime(r.attempt)), !.pc = "delay"]

\* the continuation after a resolved generateContent (lines 66, 196-198)
AfterGenSuccess(r, text) ==
    [r EXCEPT !.outcomes = Append(@, [kind |-> "ok", text |-> text]),
              !.responseText = text,
              !.writes = @ + 1, !.pc = "create"]

GenerateDone(i) ==
    /\ reqs[i].pc = "generate"
    /\ \/ \E t \in Texts : reqs' = [reqs EXCEPT ![i] = AfterGenSuccess(@, t)]
       \/ \E e \in GenErrors : reqs' = [reqs EXCEPT ![i] = AfterGenError(@, e)]
    /\ prismaConnected' = (prismaConnected \/ reqs'[i].pc = "create")
    /\ UNCHANGED <<alunos, insights, GEMINI_API_KEY>>

\* the timer of delay() fired: attempt++, the loop test, the next call or
\* the throw of line 84
AfterDelay(r) ==
    LET q == [r EXCEPT !.attempt = @ + 1]
    IN IF AttemptsRemain(q.attempt) THEN IssueCall(q)
       ELSE Fail(q, "retryExhausted", MsgRetryFailure)

DelayDone(i) ==
    /\ reqs[i].pc = "delay"
    /\ reqs' = [reqs EXCEPT ![i] = AfterDelay(@)]
    /\ UNCHANGED <<alunos, insights, GEMINI_API_KEY, prismaConnected>>

\* the values the storage clock can give the dataGeracao of a new row: the
\* clock never runs backwards, and two rows can fall on the same instant
Timestamps ==
    IF insights = <<>> THEN {1}
    ELSE {insights[Len(insights)].dataGeracao, insights[Len(insights)].dataGeracao + 1}

\* CreateDone where the row is kept although the create rejects
CreateDoneKeepsRow(i) ==
    /\ reqs[i].pc = "create"
    /\ \E t \in Timestamps :
         LET novoInsight == NewInsight(reqs[i], Len(insights) + 1, t)
         IN /\ insights' = Append(insights, novoInsight)
            /\ \/ \E e \in StorageErrors :
                    reqs' = [reqs EXCEPT ![i] = Fail(@, "storageWrite", e.message)]
               \/ reqs' = [reqs EXCEPT ![i] =
                    [@ EXCEPT !.insightId = novoInsight.id, !.pc = "disconnect",
                              !.res = [status |-> 200,
                                       body |-> [kind |-> "insight",
                                                 text |-> "Insight gerado com sucesso!",
                                                 data |-> <<novoInsight>>]]]]
    /\ UNCHANGED <<alunos, GEMINI_API_KEY, prismaConnected>>

\* prisma.insight.create settled (lines 198-207)
CreateDone(i) ==
    /\ reqs[i].pc = "create"
    /\ \/ /\ \E e \in StorageErrors :
               reqs' = [reqs EXCEPT ![i] = Fail(@, "storageWrite", e.message)]
          /\ UNCHANGED insights
       \/ \E t \in Timestamps :
            LET novoInsight == NewInsight(reqs[i], Len(insights) + 1, t)
            IN /\ insights' = Append(insights, novoInsight)
               /\ reqs' = [reqs EXCEPT ![i] =
                    [@ EXCEPT !.insightId = novoInsight.id, !.pc = "disconnect",
                              !.res = [status |-> 200,
                                       body |-> [kind |-> "insight",
                                                 text |-> "Insight gerado com sucesso!",
                                                 data |-> <<novoInsight>>]]]]
    /\ UNCHANGED <<alunos, GEMINI_API_KEY, prismaConnected>>

\* IsListing with orderBy: { dataGeracao: 'asc' }
IsListingAscending(l, id) ==
    /\ \A k \in 1..Len(l) : l[k] \in {insights[j] : j \in 1..Len(insights)}
    /\ \A k \in 1..Len(l) : l[k].alunoId = id
    /\ \A j \in 1..Len(insights) :
         insights[j].alunoId = id => \E k \in 1..Len(l) : l[k] = insights[j]
    /\ \A k, m \in 1..Len(l) : k < m => l[k] # l[m] /\ l[k].dataGeracao <= l[m].dataGeracao

\* where: { alunoId }, orderBy: { dataGeracao: 'desc' }: the order of rows
\* with equal dataGeracao is the storage's choice
IsListing(l, id) ==
    /\ \A k \in 1..Len(l) : l[k] \in {insights[j] : j \in 1..Len(insights)}
    /\ \A k \in 1..Len(l) : l[k].alunoId = id
    /\ \A j \in 1..Len(insights) :
         insights[j].alunoId = id => \E k \in 1..Len(l) : l[k] = insights[j]
    /\ \A k, m \in 1..Len(l) : k < m => l[k] # l[m] /\ l[k].dataGeracao >= l[m].dataGeracao

RECURSIVE Listings(_, _)
\* the sequences that extend l by the rows of rest, in every order
Listings(l, rest) ==
    IF rest = {} THEN {l}
    ELSE UNION {Listings(Append(l, x), rest \ {x}) : x \in rest}

FindMany(id) ==
    {l \in Listings(<<>>, {insights[j] : j \in {k \in 1..Len(insights) :
                                                  insights[k].alunoId = id}}) :
        IsListing(l, id)}

\* FindManyDone that answers a caller of another school, who is not an
\* administrator, with 403
FindManyDoneOwnSchool(i) ==
    /\ reqs[i].pc = "findMany"
    /\ \/ \E e \in StorageErrors :
            reqs' = [reqs EXCEPT ![i] =
                [@ EXCEPT !.thrown = "storageRead", !.err = e.message,
                          !.pc = "disconnect",
                          !.res = ErrorRes(500, "Erro interno ao buscar insights.")]]
       \/ /\ ~Authorized(reqs[i].user, alunos[reqs[i].alunoId])
          /\ reqs' = [reqs EXCEPT ![i] =
                [@ EXCEPT !.pc = "disconnect",
                          !.res = ErrorRes(403, "Acesso negado: Aluno nao pertence a sua escola.")]]
       \/ /\ Authorized(reqs[i].user, alunos[reqs[i].alunoId])
          /\ \E l \in FindMany(reqs[i].alunoId) :
                reqs' = [reqs EXCEPT ![i] =
                    [@ EXCEPT !.pc = "disconnect",
                              !.res = [status |-> 200,
                                       body |-> [kind |-> "list", text |-> "", data |-> l]]]]
    /\ UNCHANGED <<alunos, insights, GEMINI_API_KEY, prismaConnected>>

\* prisma.insight.findMany settled (lines 40-47)
FindManyDone(i) ==
    /\ reqs[i].pc = "findMany"
    /\ \/ \E e \in StorageErrors :
            reqs' = [reqs EXCEPT ![i] =
                [@ EXCEPT !.thrown = "storageRead", !.err = e.message,
                          !.pc = "disconnect",
                          !.res = ErrorRes(500, "Erro interno ao buscar insights.")]]
       \/ \E l \in FindMany(reqs[i].alunoId) :
            reqs' = [reqs EXCEPT ![i] =
                [@ EXCEPT !.pc = "disconnect",
                          !.res = [status |-> 200,
                                   body |-> [kind |-> "list", text |-> "", data |-> l]]]]
    /\ UNCHANGED <<alunos, insights, GEMINI_API_KEY, prismaConnected>>

\* await prisma.$disconnect() of the finally blocks (lines 49 and 218)
DisconnectDone(i) ==
    /\ reqs[i].pc = "disconnect"
    /\ reqs' = [reqs EXCEPT ![i].pc = "done", ![i].disconnected = TRUE]
    /\ prismaConnected' = FALSE
    /\ UNCHANGED <<alunos, insights, GEMINI_API_KEY>>

\* another writer of the storage changes a row of the aluno table
EnvUpdateAluno ==
    /\ \E a \in AlunoIds : \E row \in AlunoRows(a) :
         /\ alunos[a] # row
         /\ alunos' = [alunos EXCEPT ![a] = row]
    /\ UNCHANGED <<reqs, insights, GEMINI_API_KEY, prismaConnected>>

Next ==
    \/ \E i \in Reqs : Receive(i)
    \/ \E i \in Reqs : FindUniqueDone(i)
    \/ \E i \in Reqs : GenerateDone(i)
    \/ \E i \in Reqs : DelayDone(i)
    \/ \E i \in Reqs : CreateDone(i)
    \/ \E i \in Reqs : FindManyDone(i)
    \/ \E i \in Reqs : DisconnectDone(i)
    \/ EnvUpdateAluno

Spec == Init /\ [][Next]_vars

\* a row of the insight table written by an earlier request for a1
StoredInsight(id, text, t) ==
    [id |-> id, alunoId |-> "a1",
     jsonInput |-> [aluno |-> [Nome |-> "n1"], observacoes |-> <<"o1", "o2">>],
     textoInsight |-> text, escolaId |-> "e1", dataGeracao |-> t]

\* the insight table of a storage that served requests before this process
\* started: three rows of a1, two of them with the same dataGeracao
StoredInsights ==
    <<StoredInsight(1, "t1", 1), StoredInsight(2, "t2", 1), StoredInsight(3, "t1", 2)>>

InitList ==
    /\ reqs = [i \in Reqs |-> IdleReq]
    /\ alunos \in [AlunoIds -> UNION {AlunoRows(a) : a \in AlunoIds}]
    /\ \A a \in AlunoIds : alunos[a] \in AlunoRows(a)
    /\ insights = StoredInsights
    /\ GEMINI_API_KEY \in BOOLEAN
    /\ prismaConnected = FALSE

SpecList == InitList /\ [][Next]_vars

\* the caller of request i disconnects, or the deadline of the inbound
\* request elapses, while the request is in flight; no line of the handlers
\* or of retryGenerateInsight reads it
ClientGone(i) ==
    /\ reqs[i].pc \notin {"idle", "done"}
    /\ reqs[i].res = NoRes
    /\ ~reqs[i].aborted
    /\ reqs' = [reqs EXCEPT ![i].aborted = TRUE]
    /\ UNCHANGED <<alunos, insights, GEMINI_API_KEY, prismaConnected>>

NextDeadline ==
    \/ Next
    \/ \E i \in Reqs : ClientGone(i)

SpecDeadline == Init /\ [][NextDeadline]_vars

----------------------------------------------------------------------------
(* Properties *)

Post(r) == r.method = "POST"
Responded(r) == r.res.status # 0
LastOutcome(r) == r.outcomes[Len(r.outcomes)]
AllOverload(os, n) == \A j \in 1..n : os[j].kind = "overload"

\* the waits 1 s, 2 s, 4 s, ... that separate k + 1 calls
Backoff(k) == [j \in 1..k |-> 1000 * (2 ^ (j - 1))]

\* the request ended in GenerationOverloaded: the throw of line 84 and its 503
GenerationOverloaded(r) ==
    /\ r.thrown = "retryExhausted"
    /\ r.err = MsgRetryFailure
    /\ r.res.status = 503

(* C1: with maxRetries = 3, a service that answers overload (503) k times   *)
(* and then succeeds is called exactly k + 1 times when k < maxRetries,    *)
(* with waits of 1, 2, ..., 2^(k-1) seconds between the calls, and the     *)
(* pipeline goes on with the text of the successful call; after            *)
(* maxRetries overloads exactly maxRetries calls were made and the request *)
(* ends with GenerationOverloaded.                                         *)
C1_RetryBackoff ==
    \A i \in Reqs :
        LET r == reqs[i]
            n == Len(r.outcomes)
        IN /\ Len(r.sent) <= maxRetries
           /\ (n >= 1 /\ AllOverload(r.outcomes, n - 1) /\ LastOutcome(r).kind = "ok") =>
                /\ n - 1 < maxRetries
                /\ Len(r.sent) = n
                /\ r.delays = Backoff(n - 1)
                /\ r.responseText = LastOutcome(r).text
                /\ r.thrown \notin {"genError", "retryExhausted", "noApiKey"}
           /\ (n >= maxRetries /\ AllOverload(r.outcomes, n) /\ r.pc # "delay") =>
                /\ Len(r.sent) = maxRetries
                /\ GenerationOverloaded(r)
                /\ r.writes = 0

\* one request got the text after two overloads while another exhausted
\* its three attempts
C1_Witness ==
    \E i, j \in Reqs :
        /\ Len(reqs[i].outcomes) = 3 /\ LastOutcome(reqs[i]).kind = "ok"
        /\ reqs[i].delays = <<1000, 2000>>
        /\ reqs[i].pc = "create"
        /\ Len(reqs[j].outcomes) = 3 /\ AllOverload(reqs[j].outcomes, 3)
        /\ reqs[j].pc = "done" /\ reqs[j].res.status = 503

(* C2: a generation failure without the overload signal is never retried:  *)
(* it is the last call of the request, the request ends with status 500,   *)
(* and when the first call fails this way no backoff wait happened.        *)
C2_NonOverloadNeverRetried ==
    \A i \in Reqs :
        LET r == reqs[i]
            n == Len(r.outcomes)
        IN \A j \in 1..n :
             r.outcomes[j].kind = "fatal" =>
                /\ j = n
                /\ Len(r.sent) = n
                /\ r.res.status = 500
                /\ (j = 1 => r.delays = <<>>)

(* C3: a Generate request that failed after authorization answers 503 if   *)
(* and only if the retry budget was exhausted against the overload signal; *)
(* every other generation failure and every storage failure answers 500.   *)
C3_StatusMapping ==
    \A i \in Reqs :
        LET r == reqs[i]
        IN (Post(r) /\ r.thrown # "") =>
             /\ r.res.status \in {500, 503}
             /\ (r.res.status = 503 <=> r.thrown = "retryExhausted")

\* the caller of r is not an Administrador and belongs to another school
\* than the aluno the request loaded
ForeignNonAdmin(r) ==
    /\ Post(r)
    /\ r.aluno # NoAluno
    /\ r.user.escolaId # r.aluno.escolaId
    /\ r.user.acesso # "Administrador"

Forbidden == ErrorRes(403, "Acesso negado: Aluno nao pertence a sua escola.")

(* C4: a Generate request with a valid token whose caller is not an        *)
(* Administrador and whose school differs from the school of the loaded    *)
(* aluno is answered 403 Forbidden, calls the generation service zero      *)
(* times and creates no insight.                                           *)
C4_ForeignNonAdminForbidden ==
    \A i \in Reqs :
        LET r == reqs[i]
        IN ForeignNonAdmin(r) =>
             /\ r.res = Forbidden
             /\ r.sent = <<>> /\ r.outcomes = <<>>
             /\ r.writes = 0 /\ r.insightId = 0

C4_Witness ==
    \E i \in Reqs :
        /\ ForeignNonAdmin(reqs[i])
        /\ reqs[i].pc = "done"
        /\ reqs[i].res.status = 403

(* C5: a Generate request of an Administrador whose target exists is never *)
(* answered 403 Forbidden, whether or not the schools match, and goes on   *)
(* to the generation stage: the payload is built and the generation        *)
(* service is called (or, with no API key, the stage fails before its      *)
(* first call).                                                            *)
C5_AdminAuthorized ==
    \A i \in Reqs :
        LET r == reqs[i]
        IN (Post(r) /\ r.user.acesso = "Administrador" /\ r.aluno # NoAluno) =>
             /\ r.res # Forbidden
             /\ r.res.status # 403
             /\ r.jsonInput = JsonInput(r.aluno)
             /\ IF GEMINI_API_KEY THEN Len(r.sent) >= 1 ELSE r.thrown = "noApiKey"

\* an Administrador of another school reached the generation call
C5_Witness ==
    \E i \in Reqs :
        /\ Post(reqs[i])
        /\ reqs[i].user.acesso = "Administrador"
        /\ reqs[i].aluno # NoAluno
        /\ reqs[i].user.escolaId # reqs[i].aluno.escolaId
        /\ reqs[i].pc = "generate"

\* the Authorization header is absent or has no second space-separated part
NoBearerToken(h) == ~h.set \/ \A k \in 1..Len(h.text) : h.text[k] # " "

Unauthenticated == ErrorRes(401, "Token de autenticacao nao fornecido.")

(* C6: a List or Generate request with no bearer token is answered 401     *)
(* and performs no storage read, no storage write and no generation call.  *)
C6_NoTokenUnauthenticated ==
    \A i \in Reqs :
        LET r == reqs[i]
        IN (r.pc # "idle" /\ NoBearerToken(r.authorization)) =>
             /\ r.res = Unauthenticated
             /\ r.pc = "done"
             /\ ~r.nextCalled
             /\ r.reads = 0 /\ r.writes = 0 /\ r.sent = <<>>

\* a List without header and a Generate whose header has one part only
C6_Witness ==
    \E i, j \in Reqs :
        /\ reqs[i].method = "GET" /\ reqs[i].pc = "done"
        /\ ~reqs[i].authorization.set
        /\ Post(reqs[j]) /\ reqs[j].pc = "done"
        /\ reqs[j].authorization = Hdr(<<"tkAdminE2">>)

\* the token of the request fails jwt.verify
FailsVerification(r) ==
    /\ r.pc # "idle"
    /\ Token(r.authorization) # <<>>
    /\ ~JwtVerify(Token(r.authorization)).ok

InvalidCredential == ErrorRes(403, "Token invalido.")

(* C7: a List or Generate request whose token fails verification is        *)
(* answered 403 with the same body whatever the reason, next() is not      *)
(* called, and no storage access or generation call is made.               *)
C7_InvalidTokenRejected ==
    \A i \in Reqs :
        LET r == reqs[i]
        IN FailsVerification(r) =>
             /\ r.res = InvalidCredential
             /\ r.pc = "done"
             /\ ~r.nextCalled
             /\ r.reads = 0 /\ r.writes = 0 /\ r.sent = <<>>

\* two requests rejected for different reasons received the same response
C7_Witness ==
    \E i, j \in Reqs :
        /\ FailsVerification(reqs[i]) /\ FailsVerification(reqs[j])
        /\ reqs[i].method = "GET" /\ Post(reqs[j])
        /\ JwtVerify(Token(reqs[i].authorization)).reason
             # JwtVerify(Token(reqs[j].authorization)).reason
        /\ reqs[i].res = reqs[j].res

Succeeded(r) == Post(r) /\ r.res.status = 200

C8_Records ==
    /\ Len(insights) = Cardinality({i \in Reqs : Succeeded(reqs[i])})
    /\ \A j, k \in 1..Len(insights) : j # k => insights[j].id # insights[k].id
    /\ \A i \in Reqs :
         LET r == reqs[i]
         IN /\ Responded(r) => r.res.status \in {200, 400, 401, 403, 404, 500, 503}
            /\ Succeeded(r) =>
                 /\ r.writes = 1
                 /\ Len(r.res.body.data) = 1
                 /\ \E j \in 1..Len(insights) : insights[j] = r.res.body.data[1]
            /\ (Post(r) /\ Responded(r) /\ ~Succeeded(r)) =>
                 /\ r.insightId = 0
                 /\ r.res.body.data = <<>>
    /\ \A i, j \in Reqs :
         (i # j /\ Succeeded(reqs[i]) /\ Succeeded(reqs[j])) =>
            reqs[i].res.body.data[1].id # reqs[j].res.body.data[1].id

C8_AppendOnly ==
    /\ Len(insights') \in {Len(insights), Len(insights) + 1}
    /\ \A j \in 1..Len(insights) : insights'[j] = insights[j]

(* C8: in every interleaving a Generate request creates exactly one        *)
(* insight when it answers 200 and none when it answers a failure, two     *)
(* successful Generate requests create two distinct insights, and no step  *)
(* modifies or deletes a stored insight.                                   *)
C8_ExactlyOncePerSuccess == [](C8_Records) /\ [][C8_AppendOnly]_vars

\* two Generate requests on the same aluno overlapped and both succeeded:
\* the one that arrived second wrote first
C8_Witness ==
    /\ Succeeded(reqs[1]) /\ Succeeded(reqs[2])
    /\ reqs[1].alunoId = reqs[2].alunoId
    /\ reqs[2].res.body.data[1].id = 1
    /\ reqs[1].res.body.data[1].id = 2
    /\ Len(insights) = 2

(* C9: the escolaId of every insight equals the escolaId its aluno has in  *)
(* the table at the moment the insight is created.                         *)
C9_OrgAtCreation ==
    [][Len(insights') > Len(insights) =>
         insights'[Len(insights')].escolaId
            = alunos'[insights'[Len(insights')].alunoId].escolaId]_vars

(* C10: the insight of a successful Generate request has the aluno id of   *)
(* the request, the text returned by the successful generation call of     *)
(* that request, and as jsonInput the payload whose serialization was      *)
(* sent in the prompt of every call of that request.                       *)
C10_RecordMatchesRequest ==
    \A i \in Reqs :
        LET r == reqs[i]
        IN Succeeded(r) =>
             LET rec == r.res.body.data[1]
             IN /\ rec.alunoId = r.alunoId
                /\ LastOutcome(r).kind = "ok"
                /\ rec.textoInsight = LastOutcome(r).text
                /\ Len(r.sent) = Len(r.outcomes)
                /\ \A k \in 1..Len(r.sent) : r.sent[k] = FullPrompt(rec.jsonInput)
                /\ \E j \in 1..Len(insights) : insights[j] = rec

\* two overlapping Generate requests succeeded with different payloads and
\* different texts
C10_Witness ==
    /\ Succeeded(reqs[1]) /\ Succeeded(reqs[2])
    /\ reqs[2].res.body.data[1].id = 1
    /\ reqs[1].res.body.data[1].jsonInput # reqs[2].res.body.data[1].jsonInput
    /\ reqs[1].res.body.data[1].textoInsight # reqs[2].res.body.data[1].textoInsight

----------------------------------------------------------------------------
(* List *)

Get(r) == r.method = "GET"

\* the rows of target id among the first m rows of the insight table
RowsOf(id, m) == {insights[j] : j \in {k \in 1..m : insights[k].alunoId = id}}

\* l holds each row of rows once, newest dataGeracao first
ListsNewestFirst(l, rows) ==
    /\ {l[k] : k \in 1..Len(l)} = rows
    /\ Len(l) = Cardinality(rows)
    /\ \A k, m \in 1..Len(l) : k < m => l[k].dataGeracao >= l[m].dataGeracao

\* C11: a List request with a valid token and a non-empty target id whose
\* storage query succeeded is answered 200 with exactly the InsightRecords
\* that were stored for the target when the query ran (the table only grows,
\* so these are the target's rows among the first m), ordered by creation
\* timestamp descending; a target without records, or one that does not
\* exist, gets 200 with the empty sequence and never 404.
C11_ListNewestFirst ==
    \A i \in Reqs :
        LET r == reqs[i]
        IN (Get(r) /\ r.nextCalled /\ r.param # "" /\ r.thrown = ""
                /\ r.pc \in {"disconnect", "done"})
           => /\ r.res.status = 200
              /\ r.res.body.kind = "list"
              /\ \E m \in 0..Len(insights) :
                    ListsNewestFirst(r.res.body.data, RowsOf(r.param, m))
              /\ (r.param \notin {insights[j].alunoId : j \in 1..Len(insights)}
                    => r.res.body.data = <<>>)

\* one List returned three rows of a1 that span two creation timestamps, and
\* another List on a2, which does not exist, returned 200 with no rows
C11_Witness ==
    \E i, j \in Reqs :
        /\ Get(reqs[i]) /\ reqs[i].res.status = 200 /\ reqs[i].param = "a1"
        /\ Len(reqs[i].res.body.data) = 3
        /\ reqs[i].res.body.data[1].dataGeracao > reqs[i].res.body.data[3].dataGeracao
        /\ Get(reqs[j]) /\ reqs[j].res.status = 200 /\ reqs[j].param = "a2"
        /\ reqs[j].res.body.data = <<>>

\* C12: two List requests on the same target with no Generate write
\* completing between them (here: no row was written since the table was
\* read for the first time) return identical sequences in identical order,
\* rows with equal creation timestamps included.
C12_ListRepeatable ==
    \A i, j \in Reqs :
        (/\ Get(reqs[i]) /\ Get(reqs[j])
         /\ reqs[i].res.status = 200 /\ reqs[j].res.status = 200
         /\ reqs[i].param = reqs[j].param
         /\ insights = StoredInsights)
        => reqs[i].res.body.data = reqs[j].res.body.data

\* the callers differ in organization and in access level
CallersDiffer(u, v) == u.escolaId # v.escolaId /\ u.acesso # v.acesso

\* the storage query of request i can be answered 200 with the sequence l
CanReceive(i, l) ==
    ENABLED (FindManyDone(i) /\ reqs'[i].res.status = 200
                             /\ reqs'[i].res.body.data = l)

\* C13: List authorizes nothing beyond the token. For a fixed insight table
\* and target, two List requests of callers that differ in organization and
\* access level can receive exactly the same 200 responses (every sequence
\* one of them can be answered with, the other can be answered with), and
\* each such response holds every record of the target; a List answered
\* 200 holds the target's records whatever the caller's organization.
C13_ListIgnoresCaller ==
    /\ \A i, j \in Reqs :
          (/\ reqs[i].pc = "findMany" /\ reqs[j].pc = "findMany"
           /\ reqs[i].alunoId = reqs[j].alunoId
           /\ CallersDiffer(reqs[i].user, reqs[j].user))
          => /\ \A l \in Listings(<<>>, RowsOf(reqs[i].alunoId, Len(insights))) :
                   CanReceive(i, l) <=> CanReceive(j, l)
             /\ \E l \in Listings(<<>>, RowsOf(reqs[i].alunoId, Len(insights))) :
                   CanReceive(i, l)
    /\ \A i \in Reqs :
          (Get(reqs[i]) /\ reqs[i].res.status = 200)
          => \E m \in 0..Len(insights) :
                {reqs[i].res.body.data[k] : k \in 1..Len(reqs[i].res.body.data)}
                    = RowsOf(reqs[i].param, m)

\* a professor of e1 listed a1 while a1 belongs to e2 and received its three
\* records, and the same caller's Generate on a1 was answered 403
C13_Witness ==
    \E i, j \in Reqs :
        /\ alunos["a1"].escolaId = "e2"
        /\ Get(reqs[i]) /\ reqs[i].param = "a1" /\ reqs[i].res.status = 200
        /\ reqs[i].user.escolaId = "e1" /\ reqs[i].user.acesso # "Administrador"
        /\ Len(reqs[i].res.body.data) = 3
        /\ reqs[j].method = "POST" /\ reqs[j].param = "a1" /\ reqs[j].user = reqs[i].user
        /\ reqs[j].aluno.escolaId = "e2" /\ reqs[j].res.status = 403

----------------------------------------------------------------------------
(* Deadline *)

\* C14: once the inbound request's deadline has elapsed or its caller has
\* disconnected, the request starts no further generation attempt, starts
\* no further backoff wait and writes no InsightRecord.
C14_DeadlineRespected ==
    [][\A i \in Reqs :
          reqs[i].aborted
          => /\ Len(reqs'[i].sent) = Len(reqs[i].sent)
             /\ Len(reqs'[i].delays) = Len(reqs[i].delays)
             /\ reqs'[i].insightId = reqs[i].insightId]_vars

----------------------------------------------------------------------------
(* Storage session *)

\* the request entered the try block of its handler
EnteredTry(r) == r.reads > 0

\* C15: every List or Generate request that entered its handler's try block
\* releases the storage session (prisma.$disconnect) before it finishes, on
\* every exit path: once it has sent its response (200, 404, 403, 500, 503)
\* or a stage has thrown, the release is running or has run, and the
\* request is finished only after the release.
C15_SessionReleased ==
    \A i \in Reqs :
        LET r == reqs[i]
        IN /\ (EnteredTry(r) /\ (Responded(r) \/ r.thrown # ""))
                => r.pc \in {"disconnect", "done"}
           /\ (EnteredTry(r) /\ r.pc = "done") => r.disconnected

\* a Generate answered 403 by the authorization stage and a Generate whose
\* storage write failed have both finished after the release
C15_Witness ==
    \E i, j \in Reqs :
        /\ Post(reqs[i]) /\ reqs[i].res.status = 403 /\ reqs[i].aluno # NoAluno
        /\ reqs[i].pc = "done" /\ reqs[i].disconnected
        /\ Post(reqs[j]) /\ reqs[j].thrown = "storageWrite" /\ reqs[j].res.status = 500
        /\ reqs[j].pc = "done" /\ reqs[j].disconnected

\* request k is between its target load and its insight write, or in its
\* list query: it is using the storage session
UsesSession(r) == r.pc \in {"findUnique", "generate", "delay", "create", "findMany"}

\* C16: requests share no mutable in-process state: the end-of-request
\* release of one request never disconnects the storage session that a
\* different request is using between its target load and its insight
\* write, or during its list query.
C16_ReleaseIsOwn ==
    [][\A j, k \in Reqs :
          (j # k /\ reqs[j].pc = "disconnect" /\ reqs'[j].pc = "done"
                 /\ UsesSession(reqs[k]))
          => prismaConnected']_vars

----------------------------------------------------------------------------
(* Backoff *)

\* the next step of request j: the continuation after the await it is
\* suspended in
StepOf(j) ==
    \/ FindUniqueDone(j)
    \/ GenerateDone(j)
    \/ DelayDone(j)
    \/ CreateDone(j)
    \/ FindManyDone(j)
    \/ DisconnectDone(j)

\* C17: a backoff wait blocks no other request: in every state where a
\* Generate request is suspended in delay(), every other request that is in
\* flight (suspended in any of its awaits) can take its next step, and a
\* further request can arrive as long as one is left to arrive; the waiting
\* request holds nothing the others need.
C17_BackoffDoesNotBlock ==
    \A i \in Reqs :
        reqs[i].pc = "delay"
        => /\ \A j \in Reqs :
                (j # i /\ reqs[j].pc \notin {"idle", "done"}) => ENABLED StepOf(j)
           /\ (\E j \in Reqs : reqs[j].pc = "idle")
                => ENABLED (\E j \in Reqs : Receive(j))

\* one Generate is suspended in its second backoff wait while a List
\* request is suspended in its storage query
C17_Witness ==
    \E i, j \in Reqs :
        /\ reqs[i].pc = "delay" /\ Len(reqs[i].delays) = 2
        /\ reqs[j].pc = "findMany"

\* C18: the backoff suspension happens only if attempts remain: an overload
\* on the last allowed attempt is not followed by a wait, so a request that
\* exhausts maxRetries = 3 attempts has waited 1 + 2 seconds in total before
\* its GenerationOverloaded, not 1 + 2 + 4.
C18_NoWaitAfterLastAttempt ==
    \A i \in Reqs :
        LET r == reqs[i]
        IN (Len(r.outcomes) = maxRetries /\ AllOverload(r.outcomes, maxRetries))
           => /\ r.pc # "delay"
              /\ r.delays = Backoff(maxRetries - 1)

----------------------------------------------------------------------------
(* Pipeline *)

\* nothing of the stages after the target load has happened for r
NothingAfterLoad(r) ==
    r.aluno = NoAluno /\ r.sent = <<>> /\ r.writes = 0 /\ r.insightId = 0

\* C19: Generate runs its stages in a fixed order with early exit:
\* credential check, target-id presence, target load, existence check,
\* organization authorization, generation call(s), storage write, 200.
\* The request ends with the failure of the earliest failing stage and no
\* later stage has started: 401/403 of the credential even when the id is
\* missing, 400 before any storage read, 404 before the organization check,
\* 403 Forbidden before any generation call, a failed generation before any
\* write; each stage that started found every earlier stage passed.
C19_StagesInOrder ==
    \A i \in Reqs :
        LET r == reqs[i]
        IN (Post(r) /\ r.pc # "idle")
           => /\ ~authenticateToken(r.authorization).next
                    => /\ r.res.status \in {401, 403} /\ r.pc = "done"
                       /\ r.reads = 0 /\ NothingAfterLoad(r)
              /\ r.res.status = 400
                    <=> (authenticateToken(r.authorization).next /\ r.param = "")
              /\ r.res.status = 400 => r.reads = 0 /\ NothingAfterLoad(r)
              /\ r.reads > 0
                    => authenticateToken(r.authorization).next /\ r.param # ""
              /\ (r.res.status = 404 \/ r.thrown = "storageRead")
                    => NothingAfterLoad(r) /\ r.pc \in {"disconnect", "done"}
              /\ r.aluno # NoAluno => r.reads = 1 /\ r.aluno.id = r.param
              /\ (r.aluno # NoAluno /\ ~Authorized(r.user, r.aluno))
                    => /\ r.res.status = 403 /\ r.pc \in {"disconnect", "done"}
                       /\ r.sent = <<>> /\ r.writes = 0 /\ r.insightId = 0
              /\ (r.sent # <<>> \/ r.thrown = "noApiKey")
                    => r.aluno # NoAluno /\ Authorized(r.user, r.aluno)
              /\ r.thrown \in {"noApiKey", "genError", "retryExhausted"}
                    => /\ r.writes = 0 /\ r.insightId = 0
                       /\ r.pc \in {"disconnect", "done"}
              /\ r.writes > 0
                    => /\ r.writes = 1 /\ r.sent # <<>>
                       /\ Len(r.outcomes) = Len(r.sent)
                       /\ LastOutcome(r).kind = "ok"
              /\ r.thrown = "storageWrite" => r.writes = 1 /\ r.insightId = 0
              /\ r.res.status = 200
                    <=> (r.insightId # 0 /\ r.writes = 1 /\ r.thrown = "")
              /\ (Responded(r) \/ r.thrown # "") => r.pc \in {"disconnect", "done"}

\* a Generate without token and without target id was answered 401, not
\* 400, and a Generate on a2, which does not exist, was answered 404 after
\* its load with no generation call
C19_Witness ==
    \E i, j \in Reqs :
        /\ Post(reqs[i]) /\ reqs[i].authorization = NoHeader /\ reqs[i].param = ""
        /\ reqs[i].res.status = 401
        /\ Post(reqs[j]) /\ reqs[j].param = "a2" /\ reqs[j].reads = 1
        /\ reqs[j].res.status = 404 /\ reqs[j].sent = <<>>

----------------------------------------------------------------------------
(* Termination *)

\* C20: every List and Generate request ends with exactly one response,
\* whose status is one of 200, 400, 401, 403, 404, 500, 503; every failure
\* response is a structured object with an error message, whatever the
\* shape of the underlying error; a Generate makes at most maxRetries = 3
\* generation calls and at most one storage write.
C20_OneStructuredResponse ==
    \A i \in Reqs :
        LET r == reqs[i]
        IN /\ Len(r.sent) <= maxRetries
           /\ r.writes <= 1
           /\ r.pc = "done"
                => /\ r.res.status \in {200, 400, 401, 403, 404, 500, 503}
                   /\ r.res.status # 200
                        => r.res.body.kind = "error" /\ r.res.body.text # ""

====
